---------------------------- MODULE Spec2Model ----------------------------
(* Fireflies on tracks: the scene_game state machine of src/scene_game.cc.  *)
(*                                                                          *)
(* Numbers.  Every length, coordinate, phase and radius is an integer count *)
(* of 1e-6 board units (the size of the degeneracy nudge of                 *)
(* firefly::update), so the program's float arithmetic is exact on the      *)
(* values used here.  A velocity is a length per STEPS steps and the levels *)
(* use multiples of STEPS, so v / STEPS is exact.  A float distance         *)
(* (the result of vec2::norm) is carried as the vector whose norm it is and *)
(* two distances are compared exactly by norm_lt.                           *)
(*                                                                          *)
(* Tracks.  track_seg is modelled with an axis-parallel extension, where    *)
(* ext / ext.norm() is exact.  track_cir needs sinf, cosf and atan2f and is *)
(* not modelled.                                                            *)
EXTENDS Integers, Sequences, FiniteSets, TLC

\* ==== Program constants ====
STEPS == 480
ATTRACT == 1
RETURN == 2
FIXED == 16
TRAIL_N == 20
TRAIL_I == 8
\* 0.01, 1e-6 and 1 of firefly::update; 0.75 and 0.5 of find
GATE == 10000
EPS == 1
ONE == 1000000
PICK_FF == 750000
PICK_TRACK == 500000

COLLI == ATTRACT + RETURN

\* ==== Bounds ====
\* Calls of update() in one behaviour
MaxFrames == 3
\* Calls of the pointer handlers in one behaviour
MaxPointer == 2
MaxCoord == 1         \* coordinates of the points given to seg_intxn alone

\* A vector or array given by its elements, built once, in index order
vector(f) == f \o << >>

\* ==== vec2 ====
fabs(a) == IF a < 0 THEN -a ELSE a
vmax(a, b) == IF a < b THEN b ELSE a

vadd(a, b) == <<a[1] + b[1], a[2] + b[2]>>
vsub(a, b) == <<a[1] - b[1], a[2] - b[2]>>
vmul(a, k) == <<a[1] * k, a[2] * k>>
dot(a, b) == a[1] * b[1] + a[2] * b[2]
det(a, b) == a[1] * b[2] - a[2] * b[1]

\* norm(u) < norm(w).  The two outer tests decide by
\* max(|x|,|y|) <= norm <= |x|+|y| and keep the squares small.
norm_lt(u, w) ==
  LET au == vmax(fabs(u[1]), fabs(u[2]))
      su == fabs(u[1]) + fabs(u[2])
      aw == vmax(fabs(w[1]), fabs(w[2]))
      sw == fabs(w[1]) + fabs(w[2])
  IN  IF su < aw THEN TRUE
      ELSE IF au >= sw THEN FALSE
      ELSE dot(u, u) < dot(w, w)

\* A float constant r >= 0 as a distance
radius(r) == <<r, 0>>

\* flags & bit, bit a power of two
has_flag(flags, bit) == (flags \div bit) % 2 = 1

\* A test that takes c and d in the order given
seg_intxn_directed(a, b, c, d) ==
  /\ det(vsub(c, a), vsub(b, a)) <= 0 /\ det(vsub(d, a), vsub(b, a)) >= 0
  /\ det(vsub(a, c), vsub(d, c)) * det(vsub(b, c), vsub(d, c)) <= 0

seg_intxn(a, b, c, d) ==
  /\ det(vsub(c, a), vsub(b, a)) * det(vsub(d, a), vsub(b, a)) <= 0
  /\ det(vsub(a, c), vsub(d, c)) * det(vsub(b, c), vsub(d, c)) <= 0

\* ==== Tracks ====
\* The float 0 / 0
NaN == "nan"

\* track_seg(o, ext, flags), ext axis-parallel; ext / ext.norm() of a zero
\* ext is 0 / 0 in both components
track_seg(o, ext, flags) ==
  LET n == fabs(ext[1]) + fabs(ext[2])
  IN  [o |-> o, len |-> n * 2, flags |-> flags, sel |-> FALSE,
       ext |-> IF n = 0 THEN <<NaN, NaN>>
               ELSE <<ext[1] \div n, ext[2] \div n>>]

local_at(tr, t) == vmul(tr.ext, t - tr.len \div 2)
at(tr, t) == vadd(local_at(tr, t), tr.o)

\* <<phase, distance>>
local_nearest(tr, p) ==
  LET t0 == dot(p, tr.ext)
      h == tr.len \div 2
      t == IF t0 < -h THEN -h ELSE IF t0 > h THEN h ELSE t0
  IN  <<t + h, vsub(p, vmul(tr.ext, t))>>
nearest(tr, p) == local_nearest(tr, vsub(p, tr.o))


\* ==== Fireflies ====
\* A firefly is [tr, t, v, sel, trail]: tr is the index of its track in
\* tracks, trail[i + 1] is the source's trail[i].
pos(f, tracks) == at(tracks[f.tr], f.t)

\* t += v / STEPS and the two wraps
advance(f, tracks) ==
  LET len == tracks[f.tr].len
      ta == f.t + f.v \div STEPS
      tb == IF ta >= len THEN ta - len ELSE ta
  IN  IF tb < 0 THEN tb + len ELSE tb

\* d of the degenerate case.  For t1 >= 1 the product t1 * 1e-6 is rounded
\* down to a whole count; the levels below keep every phase under 1.
nudge(t1) == IF t1 < ONE THEN EPS ELSE (t1 \div ONE) * EPS

\* The body of the loop over tracks for one track tr from the gate on, near
\* and a2 being tr->nearest(p1) and tr->nearest(p2).first:
\* [near: the gate passed, t1, t2: the two parameters as handed to the
\* chord test, hit: the chord test passed]
chord_test(tr, p1, p2, near, a2) ==
  LET a1 == near[1]
      deg == fabs(a1 - a2) < EPS
      t1 == IF deg THEN a1 - nudge(a1) ELSE a1
      t2 == IF deg THEN a2 + nudge(a1) ELSE a2
      ok == norm_lt(near[2], radius(GATE))
  IN  [near |-> ok, t1 |-> t1, t2 |-> t2,
       hit |-> ok /\ seg_intxn(p1, p2, at(tr, t1), at(tr, t2))]

\* The body of the loop over tracks for one track tr, up to the chord test
crossing(tr, p1, p2) ==
  chord_test(tr, p1, p2, nearest(tr, p1), nearest(tr, p2)[1])

\* -- a variant of the loop that the properties below must tell from it --
\* The loop without its break: the last track that passes all tests wins
RECURSIVE last_crossing(_, _, _, _, _)
last_crossing(f, tracks, k, p1, p2) ==
  IF k > Len(tracks) THEN [k |-> 0, t1 |-> 0, t2 |-> 0]
  ELSE LET later == last_crossing(f, tracks, k + 1, p1, p2)
       IN  IF later.k # 0 THEN later
           ELSE IF k # f.tr /\ (has_flag(tracks[k].flags, ATTRACT)
                                \/ has_flag(tracks[k].flags, RETURN))
                THEN LET c == crossing(tracks[k], p1, p2)
                     IN  IF c.hit THEN [k |-> k, t1 |-> c.t1, t2 |-> c.t2]
                         ELSE later
                ELSE later

\* The loop over tracks from track k on, up to its break: [k, t1, t2] of the
\* track it breaks at, k = 0 when it runs to its end
RECURSIVE first_crossing(_, _, _, _, _)
first_crossing(f, tracks, k, p1, p2) ==
  IF k > Len(tracks) THEN [k |-> 0, t1 |-> 0, t2 |-> 0]
  ELSE IF k # f.tr /\ (has_flag(tracks[k].flags, ATTRACT)
                       \/ has_flag(tracks[k].flags, RETURN))
       THEN LET c == crossing(tracks[k], p1, p2)
            IN  IF c.hit THEN [k |-> k, t1 |-> c.t1, t2 |-> c.t2]
                ELSE first_crossing(f, tracks, k + 1, p1, p2)
       ELSE first_crossing(f, tracks, k + 1, p1, p2)

\* -- a variant of the two blocks that the properties below must tell from
\* -- them --
\* The RETURN block sends the firefly back at half its speed
respond_damped(g, tracks, x, t_prev) ==
  LET g1 == IF has_flag(tracks[x.k].flags, ATTRACT)
            THEN [g EXCEPT !.tr = x.k, !.t = x.t2,
                           !.v = IF g.v * (x.t2 - x.t1) < 0 THEN -g.v ELSE g.v]
            ELSE g
  IN  IF has_flag(tracks[x.k].flags, RETURN)
      THEN [g1 EXCEPT !.t = t_prev, !.v = -(g1.v \div 2)]
      ELSE g1

\* The two flag blocks at the break, x = [k, t1, t2], run on firefly g
\* (already advanced)
respond(g, tracks, x, t_prev) ==
  LET g1 == IF has_flag(tracks[x.k].flags, ATTRACT)
            THEN [g EXCEPT !.tr = x.k, !.t = x.t2,
                           !.v = IF g.v * (x.t2 - x.t1) < 0 THEN -g.v ELSE g.v]
            ELSE g
  IN  IF has_flag(tracks[x.k].flags, RETURN)
      THEN [g1 EXCEPT !.t = t_prev, !.v = -g1.v]
      ELSE g1

\* firefly::update from the loop's break on, g the firefly advanced and
\* x = [k, t1, t2] the break
after_loop(f, tracks, g, x) ==
  [t_new |-> g.t, k |-> x.k, t1 |-> x.t1, t2 |-> x.t2,
   out |-> IF x.k = 0 THEN g ELSE respond(g, tracks, x, f.t)]

\* firefly::update from the loop on, g the firefly advanced
after_advance(f, tracks, g) ==
  after_loop(f, tracks, g,
             first_crossing(f, tracks, 1, pos(f, tracks), pos(g, tracks)))

\* firefly::update with its locals: [t_new: t after the wraps, k, t1, t2: the
\* break of the loop, out: the firefly after the call]
firefly_trace(f, tracks) ==
  after_advance(f, tracks, [f EXCEPT !.t = advance(f, tracks)])

firefly_update(f, tracks) == firefly_trace(f, tracks).out

\* ==== Trail manager ====
\* trail_m is [counter, pointer]
trail_of(f, tracks) ==
  vector([i \in 1..TRAIL_N |->
            at(tracks[f.tr], f.t - (f.v * TRAIL_I * (i - 1)) \div STEPS)])

recalc_init(ffs, tracks) ==
  vector([i \in 1..Len(ffs) |->
            [ffs[i] EXCEPT !.trail = trail_of(ffs[i], tracks)]])

\* step(): [tm, ffs] after the call
trail_step(tm, ffs, tracks) ==
  IF tm.counter + 1 = TRAIL_I
  THEN LET ptr == (tm.pointer + (TRAIL_N - 1)) % TRAIL_N
       IN  [tm |-> [counter |-> 0, pointer |-> ptr],
            ffs |-> vector([i \in 1..Len(ffs) |->
                       [ffs[i] EXCEPT !.trail[ptr + 1] = pos(ffs[i], tracks)]])]
  ELSE [tm |-> [tm EXCEPT !.counter = tm.counter + 1], ffs |-> ffs]

\* ==== Bellflowers ====
\* A bellflower is [delay, o, r, c0, c, last_on, d0, d]; delay tells
\* bellflower_delay from bellflower_ord, which has no d0 and d (kept 0).

\* (int)(d0 * STEPS) for d0 = num / den, den > 0: truncation toward zero
int_cast(num, den) ==
  IF num >= 0 THEN num \div den ELSE -((-num) \div den)

bellflower_ord(o, r, c0) ==
  [delay |-> FALSE, o |-> o, r |-> r, c0 |-> c0, c |-> c0,
   last_on |-> FALSE, d0 |-> 0, d |-> 0]

bellflower_delay(o, r, c0, num, den) ==
  LET d0 == int_cast(num * STEPS, den)
  IN  [delay |-> TRUE, o |-> o, r |-> r, c0 |-> c0, c |-> c0,
       last_on |-> FALSE, d0 |-> d0, d |-> d0]

\* -- variants of the bellflower code that the properties below must tell
\* -- from it --
\* reset without c = c0
reset_keeps_count(b) ==
  IF b.delay THEN [b EXCEPT !.last_on = FALSE, !.d = b.d0]
  ELSE [b EXCEPT !.last_on = FALSE]

\* update(bool on) counting every tick that is on, not the rising edge
update_on_level(b, on) ==
  [b EXCEPT !.c = IF on THEN b.c - 1 ELSE b.c, !.last_on = on]

\* bellflower::reset and bellflower_delay::reset
reset(b) ==
  IF b.delay THEN [b EXCEPT !.last_on = FALSE, !.c = b.c0, !.d = b.d0]
  ELSE [b EXCEPT !.last_on = FALSE, !.c = b.c0]

\* bellflower::update(bool on)
update_on(b, on) ==
  [b EXCEPT !.c = IF ~b.last_on /\ on THEN b.c - 1 ELSE b.c, !.last_on = on]

fireflies_within(b, ffs, tracks) ==
  \E i \in 1..Len(ffs) :
    ~norm_lt(radius(b.r), vsub(pos(ffs[i], tracks), b.o))

bellflower_ord_update(b, ffs, tracks) ==
  update_on(b, fireflies_within(b, ffs, tracks))

\* bellflower_delay::update without d = d0 when no firefly is within
countdown_keeps_d(b, on) ==
  LET d == IF on /\ b.d > 0 THEN b.d - 1 ELSE b.d
  IN  [b EXCEPT !.d = d, !.c = IF ~b.last_on /\ d = 0 THEN b.c - 1 ELSE b.c,
                !.last_on = (d = 0)]

\* bellflower_delay::update after its first line, on = fireflies_within
countdown(b, on) ==
  LET d == IF on THEN (IF b.d > 0 THEN b.d - 1 ELSE b.d) ELSE b.d0
  IN  update_on([b EXCEPT !.d = d], d = 0)

bellflower_delay_update(b, ffs, tracks) ==
  countdown(b, fireflies_within(b, ffs, tracks))

bellflower_update(b, ffs, tracks) ==
  IF b.delay THEN bellflower_delay_update(b, ffs, tracks)
  ELSE bellflower_ord_update(b, ffs, tracks)


\* ==== Levels ====
\* The level data the constructor's switch selects by puzzle_id:
\* [tracks, fireflies, bellflowers, links].  A firefly is given as
\* <<track, num, den, v>> for F(track, num / den, v); a group of links
\* lists firefly indices (from 1, as everywhere here).
Puzzle(id) ==
  CASE id = 1 ->
         \* an ATTRACT track ending on the firefly's track, four bellflowers
         [tracks |-> <<track_seg(<<0, 0>>, <<6, 0>>, 0),
                       track_seg(<<3, -4>>, <<0, 4>>, ATTRACT)>>,
          fireflies |-> << <<1, 0, 1, 480>> >>,
          bellflowers |-> <<bellflower_ord(<<-1, 0>>, 2, 3),
                            bellflower_delay(<<-1, 0>>, 2, 3, 1, 96),
                            bellflower_delay(<<-1, 0>>, 2, 3, 7, 480),
                            bellflower_delay(<<-1, 0>>, 2, 3, 1, 960)>>,
          links |-> << >>]
    [] id = 2 ->
         \* a RETURN track across the fireflies' track, one group
         [tracks |-> <<track_seg(<<0, 0>>, <<6, 0>>, 0),
                       track_seg(<<3, 0>>, <<0, 4>>, RETURN)>>,
          fireflies |-> << <<1, 1, 2, 480>>, <<1, 1, 4, 480>> >>,
          bellflowers |-> <<bellflower_ord(<<1, 0>>, 1, 5),
                            bellflower_delay(<<1, 0>>, 1, 2, 1, 240)>>,
          links |-> << <<1, 2>> >>]
    [] id = 3 ->
         \* a track with both flags, and a track far from the fireflies
         [tracks |-> <<track_seg(<<0, 0>>, <<6, 0>>, FIXED),
                       track_seg(<<3, 0>>, <<0, 4>>, ATTRACT + RETURN),
                       track_seg(<<2000000, 0>>, <<0, 2>>, RETURN)>>,
          fireflies |-> << <<1, 1, 3, 480>> >>,
          bellflowers |-> <<bellflower_ord(<<0, 0>>, 1, 2)>>,
          links |-> << >>]
    [] id = 5 ->
         \* three tracks across the firefly's track at one point: a plain
         \* one, a RETURN one and an ATTRACT one, in this order; far away a
         \* FIXED track and a plain track beside it
         [tracks |-> <<track_seg(<<0, 0>>, <<6, 0>>, 0),
                       track_seg(<<3, 0>>, <<0, 4>>, 0),
                       track_seg(<<3, 0>>, <<0, 2>>, RETURN),
                       track_seg(<<3, 0>>, <<0, 3>>, ATTRACT),
                       track_seg(<<2000000, 0>>, <<0, 2>>, FIXED),
                       track_seg(<<2000000, 300000>>, <<2, 0>>, 0)>>,
          fireflies |-> << <<1, 1, 3, 480>> >>,
          bellflowers |-> << >>,
          links |-> << >>]
    [] id = 6 ->
         \* a track of length 0; FIXED and without flags of firefly::update,
         \* so that no handler evaluates its geometry
         [tracks |-> <<track_seg(<<0, 0>>, <<6, 0>>, 0),
                       track_seg(<<3, 0>>, <<0, 0>>, FIXED)>>,
          fireflies |-> << <<1, 1, 3, 480>> >>,
          bellflowers |-> << >>,
          links |-> << >>]
    [] id = 7 ->
         \* a group that names a third firefly where there are two
         [tracks |-> <<track_seg(<<0, 0>>, <<6, 0>>, 0)>>,
          fireflies |-> << <<1, 0, 1, 480>>, <<1, 1, 2, 480>> >>,
          bellflowers |-> << >>,
          links |-> << <<1, 3>> >>]
    [] OTHER ->
         \* two overlapping groups, tracks of different lengths
         [tracks |-> <<track_seg(<<0, 0>>, <<6, 0>>, 0),
                       track_seg(<<0, 2>>, <<4, 0>>, 0)>>,
          fireflies |-> << <<1, 0, 1, 480>>, <<1, 1, 2, 480>>,
                           <<2, 1, 2, -480>> >>,
          bellflowers |-> << >>,
          links |-> << <<1, 2>>, <<2, 3>> >>]

PuzzleIds == 1..5

\* Level data a level must not have
BadPuzzleIds == 6..7

\* Where the pointer can be (board coordinates, the result of board(x, y))
Points == {<<-4, 0>>, <<2000000, 0>>}

\* The fireflies vector after the switch: F(_i, _t, v) for each entry
load_fireflies(lv) ==
  vector([i \in 1..Len(lv.fireflies) |->
     LET e == lv.fireflies[i]
     IN  [tr |-> e[1], t |-> (lv.tracks[e[1]].len * e[2]) \div e[3],
          v |-> e[4], sel |-> FALSE,
          trail |-> vector([n \in 1..TRAIL_N |-> <<0, 0>>])]])

\* ff_links[indep]: the <<dep, delta>> pairs in push_back order
RECURSIVE group_list(_, _, _, _)
group_list(ffs, group, indep, n) ==
  IF n > Len(group) THEN << >>
  ELSE (IF group[n] # indep
        THEN << <<group[n], ffs[group[n]].t - ffs[indep].t>> >>
        ELSE << >>) \o group_list(ffs, group, indep, n + 1)

\* The lists pushed for indep by group g, one per occurrence of indep in it
RECURSIVE group_lists(_, _, _, _)
group_lists(ffs, group, indep, m) ==
  IF m > Len(group) THEN << >>
  ELSE (IF group[m] = indep THEN group_list(ffs, group, indep, 1) ELSE << >>)
       \o group_lists(ffs, group, indep, m + 1)

RECURSIVE links_of(_, _, _, _)
links_of(ffs, links, indep, g) ==
  IF g > Len(links) THEN << >>
  ELSE group_lists(ffs, links[g], indep, 1) \o links_of(ffs, links, indep, g + 1)

build_links(ffs, links) ==
  vector([i \in 1..Len(ffs) |-> links_of(ffs, links, i, 1)])

\* The indices of fireflies[...] and ff_links[...] in build_links that are
\* outside the vectors
outside(ffs, links) ==
  UNION {{links[g][n] : n \in 1..Len(links[g])} : g \in 1..Len(links)}
    \ (1..Len(ffs))

\* What a read of fireflies[i].t outside the vector can return
Junk == {0, 5}

\* The memory build_links reads as fireflies: the vector, and after it
\* objects that are not fireflies, whose t reads as junk
beyond(ffs, links, junk) ==
  LET S == outside(ffs, links) \cup {Len(ffs)}
      top == CHOOSE m \in S : \A x \in S : x <= m
  IN  ffs \o vector([i \in 1..(top - Len(ffs)) |->
                       [tr |-> 0, t |-> junk, v |-> 0, sel |-> FALSE,
                        trail |-> << >>]])

\* build_links when it does not fault: the lists of ff_links[0 .. size - 1];
\* a list written through ff_links[i] outside the vector is not in ff_links
build_links_beyond(ffs, links, junk) ==
  vector([i \in 1..Len(ffs) |->
            links_of(beyond(ffs, links, junk), links, i, 1)])


\* ==== Scene ====
VARIABLES
  puzzle_id,        \* the constructor's argument
  tracks,           \* Seq of [o, len, flags, sel, ext]
  fireflies,        \* Seq of [tr, t, v, sel, trail]
  fireflies_init,   \* the snapshot of start_run (empty until the first one)
  bellflowers,      \* Seq of [delay, o, r, c0, c, last_on, d0, d]
  ff_links,         \* per firefly, Seq of <<firefly, delta>>
  trail_m,          \* [counter, pointer]
  sel_ff,           \* index of the selected firefly, 0 for nullptr
  sel_track,        \* index of the selected track, 0 for nullptr
  sel_offs,
  run_state,
  last_space_down,
  \* -- observers, read by no handler --
  frames,           \* calls of update() so far
  pointers,         \* calls of pton, ptmove and ptoff so far
  op,               \* what the last handler did
  calls,            \* the firefly::update calls of the last turn of update()'s loop
  pre_run,          \* what start_run found: fireflies and bellflowers
  obs,              \* per bellflower, what happened since its last reset
  ages,             \* per trail slot, the samples taken since its own
  outcome,          \* "constructed", or "fault" once the process has died
  intxn             \* a call of seg_intxn on its own: arguments and result

vars == <<puzzle_id, tracks, fireflies, fireflies_init, bellflowers, ff_links,
          trail_m, sel_ff, sel_track, sel_offs, run_state, last_space_down,
          frames, pointers, op, calls, pre_run, obs, ages, outcome,
          intxn>>

running == run_state % 2 = 1

\* -- find --
\* The first loop from firefly i on: <<best_ff, best_dist>>
RECURSIVE find_ff(_, _, _, _, _, _)
find_ff(ffs, trs, p, i, best_ff, best_dist) ==
  IF i > Len(ffs) THEN <<best_ff, best_dist>>
  ELSE LET dist == vsub(p, pos(ffs[i], trs))
       IN  IF norm_lt(dist, best_dist)
           THEN find_ff(ffs, trs, p, i + 1, i, dist)
           ELSE find_ff(ffs, trs, p, i + 1, best_ff, best_dist)

\* -- a variant of the second loop that the properties below must tell from
\* -- it --
\* The loop without its test of FIXED
RECURSIVE find_track_any(_, _, _, _, _)
find_track_any(trs, p, k, best_track, best_dist) ==
  IF k > Len(trs) THEN <<best_track, best_dist>>
  ELSE IF norm_lt(nearest(trs[k], p)[2], best_dist)
       THEN find_track_any(trs, p, k + 1, k, nearest(trs[k], p)[2])
       ELSE find_track_any(trs, p, k + 1, best_track, best_dist)

\* The second loop from track k on: <<best_track, best_result.second>>
RECURSIVE find_track(_, _, _, _, _)
find_track(trs, p, k, best_track, best_dist) ==
  IF k > Len(trs) THEN <<best_track, best_dist>>
  ELSE IF has_flag(trs[k].flags, FIXED)
       THEN find_track(trs, p, k + 1, best_track, best_dist)
       ELSE LET result == nearest(trs[k], p)
            IN  IF norm_lt(result[2], best_dist)
                THEN find_track(trs, p, k + 1, k, result[2])
                ELSE find_track(trs, p, k + 1, best_track, best_dist)

\* <<firefly, track>>, 0 for nullptr
find(ffs, trs, p) ==
  LET best_ff == find_ff(ffs, trs, p, 1, 0, radius(PICK_FF))[1]
  IN  IF best_ff # 0 THEN <<best_ff, 0>>
      ELSE <<0, find_track(trs, p, 1, 0, radius(PICK_TRACK))[1]>>

\* -- what the observers record --
NoOp(name) ==
  [name |-> name, wrote_phase |-> FALSE, wrote_origin |-> FALSE,
   read_links |-> FALSE, started |-> FALSE, stopped |-> FALSE,
   dirty |-> FALSE]

core(f) == [tr |-> f.tr, t |-> f.t, v |-> f.v]
cores(ffs) == vector([i \in 1..Len(ffs) |-> core(ffs[i])])
bell_state(bfs) ==
  vector([j \in 1..Len(bfs) |->
            [c |-> bfs[j].c, last_on |-> bfs[j].last_on, d |-> bfs[j].d]])

\* Some firefly is at distance <= r of o, by the squared distance
InRadius(b, ffs, trs) ==
  \E i \in 1..Len(ffs) :
    LET q == vsub(pos(ffs[i], trs), b.o)
    IN  q[1] * q[1] + q[2] * q[2] <= b.r * b.r

NoObs == [n |-> 0, on |-> FALSE, streak |-> 0, edges |-> 0, full |-> 0]

\* One tick seen by bellflower b's observer, in telling whether a firefly
\* was within the radius
Observed(o, b, in) ==
  LET streak == IF in THEN o.streak + 1 ELSE 0
  IN  [n |-> o.n + 1, on |-> in, streak |-> streak,
       edges |-> IF in /\ ~o.on THEN o.edges + 1 ELSE o.edges,
       full |-> IF streak = b.d0 THEN o.full + 1 ELSE o.full]

\* The same, ffs being the updated fireflies
Observe(o, b, ffs, trs) == Observed(o, b, InRadius(b, ffs, trs))

\* The slots' ages after recalc_init: trail[i] is the sample i intervals back
FreshAges == vector([n \in 1..TRAIL_N |-> n - 1])

\* The slots' ages after n calls of step() from the manager tm on
RECURSIVE aged(_, _, _)
aged(n, tm, a) ==
  IF n = 0 THEN a
  ELSE IF tm.counter + 1 = TRAIL_I
       THEN aged(n - 1,
                 [counter |-> 0,
                  pointer |-> (tm.pointer + (TRAIL_N - 1)) % TRAIL_N],
                 vector([m \in 1..TRAIL_N |->
                    IF m = ((tm.pointer + (TRAIL_N - 1)) % TRAIL_N) + 1
                    THEN 0 ELSE a[m] + 1]))
       ELSE aged(n - 1, [tm EXCEPT !.counter = tm.counter + 1], a)

\* The record of one firefly::update call on firefly i, x its trace
Call(i, f, x) ==
  [i |-> i, pre |-> core(f), t_new |-> x.t_new, k |-> x.k,
   t1 |-> x.t1, t2 |-> x.t2, post |-> core(x.out)]

\* -- the constructor --
\* The scene for one of the levels ids. An index outside the vectors in
\* build_links is undefined behaviour: the process faults there, or reads
\* junk and goes on.
construct(ids) ==
  /\ puzzle_id \in ids
  /\ LET lv == Puzzle(puzzle_id)
         ffs == load_fireflies(lv)
         ub == outside(ffs, lv.links) # {}
     IN  /\ tracks = lv.tracks
         /\ bellflowers = lv.bellflowers
         /\ outcome \in IF ub THEN {"constructed", "fault"}
                        ELSE {"constructed"}
         /\ \E junk \in IF ub /\ outcome = "constructed" THEN Junk ELSE {0} :
              ff_links = IF outcome = "fault"
                         THEN vector([i \in 1..Len(ffs) |-> << >>])
                         ELSE build_links_beyond(ffs, lv.links, junk)
         /\ fireflies = IF outcome = "fault" THEN ffs
                        ELSE recalc_init(ffs, lv.tracks)
         /\ obs = vector([j \in 1..Len(lv.bellflowers) |-> NoObs])
         /\ pre_run = [ffs |-> cores(ffs), bfs |-> bell_state(lv.bellflowers),
                       ticks |-> 0]
  /\ fireflies_init = << >>
  /\ trail_m = [counter |-> 0, pointer |-> 0]
  /\ sel_ff = 0
  /\ sel_track = 0
  /\ sel_offs = <<0, 0>>
  /\ run_state = 0
  /\ last_space_down = FALSE
  /\ frames = 0
  /\ pointers = 0
  /\ op = NoOp("init")
  /\ calls = << >>
  /\ ages = [now |-> FreshAges, saved |-> FreshAges]

\* No call of seg_intxn on its own
NoIntxn == [a |-> <<0, 0>>, b |-> <<0, 0>>, c |-> <<0, 0>>, d |-> <<0, 0>>,
            called |-> FALSE, hit |-> FALSE]

Init == construct(PuzzleIds) /\ intxn = NoIntxn

\* -- pointer handlers --
pton(p) ==
  /\ outcome = "constructed"
  /\ pointers < MaxPointer
  /\ pointers' = pointers + 1
  /\ IF running
     THEN UNCHANGED <<fireflies, tracks, sel_ff, sel_track, sel_offs>>
     ELSE LET near == find(fireflies, tracks, p)
          IN  /\ sel_ff' = IF near[1] # 0 THEN near[1] ELSE sel_ff
              /\ fireflies' = IF near[1] # 0
                              THEN [fireflies EXCEPT ![near[1]].sel = TRUE]
                              ELSE fireflies
              /\ sel_track' = IF near[2] # 0 THEN near[2] ELSE sel_track
              /\ tracks' = IF near[2] # 0
                           THEN [tracks EXCEPT ![near[2]].sel = TRUE]
                           ELSE tracks
              /\ sel_offs' = IF near[2] # 0 THEN vsub(tracks[near[2]].o, p)
                             ELSE IF near[1] # 0
                                  THEN vsub(pos(fireflies[near[1]], tracks), p)
                                  ELSE sel_offs
  /\ op' = NoOp("pton")
  /\ UNCHANGED <<puzzle_id, fireflies_init, bellflowers, ff_links, trail_m,
                 run_state, last_space_down, frames, calls, pre_run, obs,
                 ages, outcome, intxn>>

\* The loop over ff_links[index] from entry n on, t being sel_ff->t
RECURSIVE move_linked(_, _, _, _)
move_linked(ffs, list, t, n) ==
  IF n > Len(list) THEN ffs
  ELSE IF list[n][1] > Len(ffs)
       THEN \* link.first points outside the vector: no firefly is written
            move_linked(ffs, list, t, n + 1)
       ELSE move_linked([ffs EXCEPT ![list[n][1]].t = t + list[n][2]],
                        list, t, n + 1)

\* The first block of ptmove
drag_firefly(ffs, trs, links, sel, q) ==
  LET t == nearest(trs[ffs[sel].tr], q)[1]
  IN  recalc_init(move_linked([ffs EXCEPT ![sel].t = t], links[sel], t, 1), trs)

ptmove(p) ==
  LET ffs1 == IF sel_ff # 0
              THEN drag_firefly(fireflies, tracks, ff_links, sel_ff,
                                vadd(p, sel_offs))
              ELSE fireflies
      trs1 == IF sel_track # 0
              THEN [tracks EXCEPT ![sel_track].o = vadd(p, sel_offs)]
              ELSE tracks
  IN  /\ outcome = "constructed"
      /\ pointers < MaxPointer
      /\ pointers' = pointers + 1
      \* a write through a link.first outside the vector can fault
      /\ outcome' \in IF sel_ff # 0 /\ \E n \in 1..Len(ff_links[sel_ff]) :
                           ff_links[sel_ff][n][1] > Len(fireflies)
                      THEN {"constructed", "fault"} ELSE {"constructed"}
      /\ tracks' = trs1
      /\ fireflies' = IF sel_track # 0 THEN recalc_init(ffs1, trs1) ELSE ffs1
      /\ op' = [NoOp("ptmove") EXCEPT !.wrote_phase = (sel_ff # 0),
                                      !.read_links = (sel_ff # 0),
                                      !.wrote_origin = (sel_track # 0)]
      /\ ages' = IF sel_ff # 0 \/ sel_track # 0
                 THEN [ages EXCEPT !.now = FreshAges] ELSE ages
      /\ UNCHANGED <<puzzle_id, fireflies_init, bellflowers, ff_links, trail_m,
                     sel_ff, sel_track, sel_offs, run_state, last_space_down,
                     frames, calls, pre_run, obs, intxn>>

ptoff ==
  /\ outcome = "constructed"
  /\ pointers < MaxPointer
  /\ pointers' = pointers + 1
  /\ fireflies' = IF sel_ff # 0 THEN [fireflies EXCEPT ![sel_ff].sel = FALSE]
                  ELSE fireflies
  /\ sel_ff' = 0
  /\ tracks' = IF sel_track # 0 THEN [tracks EXCEPT ![sel_track].sel = FALSE]
               ELSE tracks
  /\ sel_track' = 0
  /\ op' = NoOp("ptoff")
  /\ UNCHANGED <<puzzle_id, fireflies_init, bellflowers, ff_links, trail_m,
                 sel_offs, run_state, last_space_down, frames, calls, pre_run,
                 obs, ages, outcome, intxn>>

\* -- run and pause --
\* start_run: the new fireflies_init
start_run(ffs) == ffs

\* stop_run: [ffs, bfs, tm] after the call
stop_run(ffs_init, bfs) ==
  [ffs |-> ffs_init,
   bfs |-> vector([j \in 1..Len(bfs) |-> reset(bfs[j])]),
   tm |-> [counter |-> 0, pointer |-> 0]]

\* One turn of the loop of update() on s = [ffs, bfs, tm], with the
\* observers' [calls, obs] carried along
\* -- a variant of the first loop that the properties below must tell from
\* -- it --
\* Each firefly but the first is updated with its predecessor's velocity
update_fireflies_coupled(ffs, trs) ==
  vector([i \in 1..Len(ffs) |->
            firefly_trace(IF i > 1 THEN [ffs[i] EXCEPT !.v = ffs[i - 1].v]
                          ELSE ffs[i], trs)])

\* The first loop of a turn: the trace of f.update(tracks) for each firefly
update_fireflies(ffs, trs) ==
  vector([i \in 1..Len(ffs) |-> firefly_trace(ffs[i], trs)])

\* -- a variant of the rest of the turn that the properties below must tell
\* -- from it --
\* The bellflowers look at the fireflies as they were before the first loop
after_fireflies_stale(s, trs, xs, ffs1) ==
  [ffs |-> trail_step(s.tm, ffs1, trs).ffs,
   bfs |-> vector([j \in 1..Len(s.bfs) |->
                     bellflower_update(s.bfs[j], s.ffs, trs)]),
   tm |-> trail_step(s.tm, ffs1, trs).tm,
   calls |-> vector([i \in 1..Len(s.ffs) |-> Call(i, s.ffs[i], xs[i])]),
   obs |-> vector([j \in 1..Len(s.bfs) |->
                     Observe(s.obs[j], s.bfs[j], ffs1, trs)])]

\* The turn after the first loop, ffs1 the fireflies it leaves and xs their
\* traces
after_fireflies(s, trs, xs, ffs1) ==
  [ffs |-> trail_step(s.tm, ffs1, trs).ffs,
   bfs |-> vector([j \in 1..Len(s.bfs) |->
                     bellflower_update(s.bfs[j], ffs1, trs)]),
   tm |-> trail_step(s.tm, ffs1, trs).tm,
   calls |-> vector([i \in 1..Len(s.ffs) |-> Call(i, s.ffs[i], xs[i])]),
   obs |-> vector([j \in 1..Len(s.bfs) |->
                     Observe(s.obs[j], s.bfs[j], ffs1, trs)])]

traced(s, trs, xs) ==
  after_fireflies(s, trs, xs, vector([i \in 1..Len(xs) |-> xs[i].out]))

sub_step(s, trs) == traced(s, trs, update_fireflies(s.ffs, trs))

RECURSIVE run_steps(_, _, _)
run_steps(n, s, trs) ==
  IF n = 0 THEN s ELSE run_steps(n - 1, sub_step(s, trs), trs)

\* The scene as the loop of update() finds it: after stop_run if the toggle
\* stopped the run, as it is otherwise
before_loop(stop) ==
  IF stop
  THEN LET halt == stop_run(fireflies_init, bellflowers)
       IN  [ffs |-> halt.ffs, bfs |-> halt.bfs, tm |-> halt.tm,
            calls |-> << >>,
            obs |-> vector([j \in 1..Len(bellflowers) |-> NoObs])]
  ELSE [ffs |-> fireflies, bfs |-> bellflowers, tm |-> trail_m,
        calls |-> << >>, obs |-> obs]

\* -- a variant of the toggle's condition that the properties below must
\* -- tell from it --
\* The key is down, whatever it was in the frame before
toggle_held(space_down) == sel_track = 0 /\ space_down

\* The condition of the toggle in update()
toggle_edge(space_down) == sel_track = 0 /\ ~last_space_down /\ space_down

update(space_down, grave, one) ==
  LET toggle == toggle_edge(space_down)
      bit == IF toggle THEN 1 - (run_state % 2) ELSE run_state % 2
      start == toggle /\ bit = 1
      stop == toggle /\ bit = 0
      rate == IF grave THEN 1 ELSE IF one THEN 16 ELSE 4
      rs == bit + (2 * rate)
  IN  /\ outcome = "constructed"
      /\ frames < MaxFrames
      /\ frames' = frames + 1
      /\ fireflies_init' = IF start THEN start_run(fireflies) ELSE fireflies_init
      /\ last_space_down' = space_down
      /\ run_state' = rs
      /\ \E s0 \in {before_loop(stop)} :
           /\ \E s1 \in {IF rs % 2 = 1 THEN run_steps(rs \div 2, s0, tracks)
                         ELSE s0} :
                /\ fireflies' = s1.ffs
                /\ bellflowers' = s1.bfs
                /\ trail_m' = s1.tm
                /\ calls' = s1.calls
                /\ obs' = s1.obs
           /\ op' = [NoOp("update") EXCEPT
                       !.started = start, !.stopped = stop,
                       !.dirty = stop /\ cores(fireflies) # cores(s0.ffs)
                                      /\ bell_state(bellflowers) # bell_state(s0.bfs)
                                      /\ trail_m # s0.tm]
      /\ pre_run' = IF start
                    THEN [ffs |-> cores(fireflies),
                          bfs |-> bell_state(bellflowers), ticks |-> rate]
                    ELSE IF rs % 2 = 1
                         THEN [pre_run EXCEPT !.ticks = pre_run.ticks + rate]
                         ELSE pre_run
      /\ ages' = [now |-> IF stop THEN ages.saved
                          ELSE IF rs % 2 = 1 THEN aged(rate, trail_m, ages.now)
                          ELSE ages.now,
                  saved |-> IF start THEN ages.now ELSE ages.saved]
      /\ UNCHANGED <<puzzle_id, tracks, ff_links, sel_ff, sel_track, sel_offs,
                     pointers, outcome, intxn>>

Next ==
  \/ \E p \in Points : pton(p)
  \/ \E p \in Points : ptmove(p)
  \/ ptoff
  \/ \E space_down \in BOOLEAN, grave \in BOOLEAN :
       \E one \in IF grave THEN {FALSE} ELSE BOOLEAN :
         update(space_down, grave, one)

Spec == Init /\ [][Next]_vars

\* The scene constructed from any level data, the bad levels included
LoadInit == construct(PuzzleIds \cup BadPuzzleIds) /\ intxn = NoIntxn
LoadSpec == LoadInit /\ [][Next]_vars

\* -- seg_intxn on its own --
\* The points given to seg_intxn
Grid == {<<x, y>> : x \in (-MaxCoord)..MaxCoord, y \in (-MaxCoord)..MaxCoord}

\* Four points, and then the call of seg_intxn on them
IntxnInit ==
  /\ construct({1})
  /\ intxn \in [a : Grid, b : Grid, c : Grid, d : Grid,
                called : {FALSE}, hit : {FALSE}]

call_seg_intxn ==
  /\ ~intxn.called
  /\ intxn' = [intxn EXCEPT !.called = TRUE,
                            !.hit = seg_intxn(intxn.a, intxn.b, intxn.c, intxn.d)]
  /\ UNCHANGED <<puzzle_id, tracks, fireflies, fireflies_init, bellflowers,
                 ff_links, trail_m, sel_ff, sel_track, sel_offs, run_state,
                 last_space_down, frames, pointers, op, calls, pre_run, obs,
                 ages, outcome>>

IntxnNext == call_seg_intxn
IntxnSpec == IntxnInit /\ [][IntxnNext]_vars


\* ==== Properties of firefly::update ====
\* The calls recorded in the last turn of update()'s loop in which the loop
\* over tracks broke at a track (a detected crossing)
Crossings == {n \in 1..Len(calls) : calls[n].k # 0}

\* C1: after each call of firefly update the firefly's phase t satisfies
\* 0 <= t < length of the track it references after the step.
C1_PhaseInRange ==
  \A n \in 1..Len(calls) :
    /\ 0 <= calls[n].post.t
    /\ calls[n].post.t < tracks[calls[n].post.tr].len

\* The two responses of a call c to its crossing, as the specification
\* states them
IsTransfer(c) == c.post.tr = c.k /\ c.post.t = c.t2
IsBounce(c) ==
  c.post.tr = c.pre.tr /\ c.post.t = c.pre.t /\ c.post.v = -c.pre.v

\* C2: on a detected crossing with track Tk, whatever flags Tk carries,
\* exactly one of the ATTRACT transfer (track := Tk, phase := phi2) and the
\* RETURN bounce (phase := t_prev on the original track, velocity negated)
\* is applied, never both.
C2_ExactlyOneResponse ==
  \A n \in Crossings : IsTransfer(calls[n]) # IsBounce(calls[n])

\* C3: after a detected crossing with an ATTRACT track B the firefly's track
\* is B, its phase is the later projected parameter phi2, and its velocity is
\* negated iff the sign of phi2 - phi1 disagrees with the sign of the velocity.
C3_AttractHandOff ==
  \A n \in Crossings :
    LET c == calls[n]
    IN  has_flag(tracks[c.k].flags, ATTRACT) =>
          /\ c.post.tr = c.k
          /\ c.post.t = c.t2
          /\ c.post.v = IF c.pre.v * (c.t2 - c.t1) < 0 THEN -c.pre.v
                        ELSE c.pre.v

\* C4: after a detected crossing with a track carrying RETURN the firefly's
\* track is unchanged, its phase is its pre-step phase t_prev and its velocity
\* is the negation of its pre-step velocity.
C4_ReturnBounce ==
  \A n \in Crossings :
    has_flag(tracks[calls[n].k].flags, RETURN) => IsBounce(calls[n])

\* ==== Properties of the handlers ====
\* C5: while the run is active (run_state bit 0 set) no pointer handler
\* writes a firefly phase or a track origin, or consults the link table.
C5_DragExcludesRun ==
  (running /\ op.name \in {"pton", "ptmove", "ptoff"}) =>
    (~op.wrote_phase /\ ~op.wrote_origin /\ ~op.read_links)

\* C6: start_run, N simulation ticks, then stop_run leave every firefly's
\* (track, phase, velocity) and every bellflower's count, latch and countdown
\* at their values at start_run, and the trail manager's counter and pointer
\* at zero.
C6_RestoreRoundTrip ==
  op.stopped =>
    /\ cores(fireflies) = pre_run.ffs
    /\ bell_state(bellflowers) = pre_run.bfs
    /\ trail_m = [counter |-> 0, pointer |-> 0]

\* A run of at least one tick that changed fireflies, bellflowers and trail
\* manager has just been stopped
C6_Witness == op.stopped /\ op.dirty /\ pre_run.ticks > 0

\* ==== Properties of the bellflowers ====
\* The delayed bellflowers, and those of a duration of at least one step
Delayed == {j \in 1..Len(bellflowers) : bellflowers[j].delay}
DelayedFrom1 == {j \in Delayed : bellflowers[j].d0 >= 1}
Immediate == {j \in 1..Len(bellflowers) : ~bellflowers[j].delay}

\* C7: a delayed bellflower of duration D >= 1 decrements its count exactly
\* on the D-th tick of a streak of consecutive in-radius ticks and on no
\* other tick, its latch is on exactly from that tick to the end of the
\* streak, and an absent tick puts the countdown back at D.
C7_DelayedTiming ==
  \A j \in DelayedFrom1 :
    LET b == bellflowers[j]
        o == obs[j]
    IN  /\ b.c = b.c0 - o.full
        /\ b.last_on = (o.streak >= b.d0)
        /\ b.d = IF o.streak < b.d0 THEN b.d0 - o.streak ELSE 0

\* One delayed bellflower has fired on the D-th tick of a streak, another
\* has seen a shorter streak end and is idle again
C7_Witness ==
  /\ \E j \in DelayedFrom1 :
       obs[j].full >= 1 /\ bellflowers[j].c < bellflowers[j].c0
  /\ \E j \in DelayedFrom1 :
       /\ obs[j].edges >= 1 /\ obs[j].full = 0 /\ ~obs[j].on
       /\ bellflowers[j].d = bellflowers[j].d0

\* C8: for every duration the constructor accepts, after a tick in which no
\* firefly is within the radius a delayed bellflower is idle: its countdown
\* is at its duration and its latch is off.
C8_OffWithoutPresence ==
  \A j \in Delayed :
    (obs[j].n > 0 /\ ~obs[j].on) =>
      (bellflowers[j].d = bellflowers[j].d0 /\ ~bellflowers[j].last_on)

\* C9: an immediate bellflower's latch is on iff some firefly is within the
\* radius in the tick, and its count is the initial count minus the number
\* of off-to-on transitions since the last reset.
C9_ImmediateCounting ==
  \A j \in Immediate :
    /\ bellflowers[j].last_on = obs[j].on
    /\ bellflowers[j].c = bellflowers[j].c0 - obs[j].edges

\* An immediate bellflower has seen fireflies enter twice and stay for a tick
C9_Witness ==
  \E j \in Immediate :
    /\ obs[j].edges >= 2
    /\ obs[j].streak >= 2
    /\ bellflowers[j].c = bellflowers[j].c0 - 2

\* ==== Properties of the links ====
\* The phase F() gives firefly i in the constructor, and the groups
load_t(i) == load_fireflies(Puzzle(puzzle_id))[i].t
Groups == Puzzle(puzzle_id).links

\* C10: after each pointer_move that drags a firefly, every firefly linked
\* to it is at the dragged one's phase plus the load-time delta, and any two
\* members of a group are at their load-time phase difference.
C10_LinkSpacing ==
  (op.name = "ptmove" /\ op.wrote_phase) =>
    /\ \A n \in 1..Len(ff_links[sel_ff]) :
         LET dep == ff_links[sel_ff][n][1]
         IN  fireflies[dep].t
               = fireflies[sel_ff].t + (load_t(dep) - load_t(sel_ff))
    /\ \A g \in 1..Len(Groups) : \A a, b \in 1..Len(Groups[g]) :
         fireflies[Groups[g][a]].t - fireflies[Groups[g][b]].t
           = load_t(Groups[g][a]) - load_t(Groups[g][b])

\* The fireflies ptmove writes when it drags firefly i: i and the fireflies
\* of ff_links[i]
Dragged(i) == {i} \cup {ff_links[i][n][1] : n \in 1..Len(ff_links[i])}

\* C11: after every pointer_move that drags a selected firefly, the dragged
\* firefly and every firefly linked to it has a phase t with
\* 0 <= t < length of its own track.
C11_DragPhaseInRange ==
  (op.name = "ptmove" /\ op.wrote_phase) =>
    \A i \in Dragged(sel_ff) :
      /\ 0 <= fireflies[i].t
      /\ fireflies[i].t < tracks[fireflies[i].tr].len

\* ==== More properties of firefly::update ====
\* The tracks that qualify for call c: not the firefly's own, ATTRACT or
\* RETURN set, and the gate and the chord test passed for the step from
\* p1 to p2
Qualifying(c) ==
  LET own == tracks[c.pre.tr]
  IN  {k \in 1..Len(tracks) :
         /\ k # c.pre.tr
         /\ tracks[k].flags % 4 # 0
         /\ crossing(tracks[k], at(own, c.pre.t), at(own, c.t_new)).hit}

Lowest(S) == CHOOSE k \in S : \A j \in S : k <= j

\* C12: a call of firefly update is decided by one track, the first in array
\* order that qualifies: the loop breaks there and the firefly's track, phase
\* and velocity differ from (own track, t_new, v) only by that track's
\* response; with no qualifying track the firefly keeps t_new and v.
C12_FirstTrackDecides ==
  op.name = "update" =>
    \A n \in 1..Len(calls) :
      LET c == calls[n]
          Q == Qualifying(c)
      IN  IF Q = {}
          THEN /\ c.k = 0
               /\ c.post = [tr |-> c.pre.tr, t |-> c.t_new, v |-> c.pre.v]
          ELSE /\ c.k = Lowest(Q)
               /\ c.post.tr \in {c.pre.tr, c.k}
               /\ c.post.t \in {c.t_new, c.t2, c.pre.t}
               /\ c.post.v \in {c.pre.v, -c.pre.v}
               /\ has_flag(tracks[c.k].flags, ATTRACT)
                    \/ (c.post.tr = c.pre.tr /\ c.post.t = c.pre.t)
               /\ has_flag(tracks[c.k].flags, RETURN)
                    \/ (c.post.tr = c.k /\ c.post.t = c.t2)

\* A call in which two tracks qualify, behind a track crossed at the same
\* point that carries no flag, and the first of the two has decided
C12_Witness ==
  /\ op.name = "update"
  /\ \E n \in 1..Len(calls) :
       /\ Cardinality(Qualifying(calls[n])) >= 2
       /\ calls[n].k = Lowest(Qualifying(calls[n]))
       /\ \E j \in 1..(calls[n].k - 1) : j # calls[n].pre.tr

\* ==== Properties of a turn of update()'s loop ====
\* The orders in which n fireflies can be visited
Orders(n) ==
  {o \in [1..n -> 1..n] : \A a, b \in 1..n : o[a] = o[b] => a = b}

\* The fireflies updated in place one after another, in the given order,
\* from its n-th entry on
RECURSIVE in_order(_, _, _, _)
in_order(ffs, trs, order, n) ==
  IF n > Len(ffs) THEN ffs
  ELSE in_order([ffs EXCEPT ![order[n]] = firefly_update(ffs[order[n]], trs)],
                trs, order, n + 1)

\* The bellflowers updated in place one after another from the j-th on
RECURSIVE bells_in_turn(_, _, _, _)
bells_in_turn(bfs, ffs, trs, j) ==
  IF j > Len(bfs) THEN bfs
  ELSE bells_in_turn([bfs EXCEPT ![j] = bellflower_update(bfs[j], ffs, trs)],
                     ffs, trs, j + 1)

\* One turn on s = [ffs, bfs, tm], ffs1 being the fireflies after their loop
turn_stepped(s, trs, ffs1, ts) ==
  [ffs |-> ts.ffs, bfs |-> bells_in_turn(s.bfs, ffs1, trs, 1), tm |-> ts.tm]
turn_after(s, trs, ffs1) ==
  turn_stepped(s, trs, ffs1, trail_step(s.tm, ffs1, trs))

\* n turns, the fireflies visited in the given order in each
RECURSIVE turns(_, _, _, _)
turns(n, s, trs, order) ==
  IF n = 0 THEN s
  ELSE turns(n - 1, turn_after(s, trs, in_order(s.ffs, trs, order, 1)),
             trs, order)

\* C13: the state after the ticks of a frame is a function of the state
\* before them and of their number, and it is the same for every order in
\* which the fireflies are updated within a tick.
C13_TickIsFunction ==
  [][(op'.name = "update" /\ run_state' % 2 = 1) =>
       \A order \in Orders(Len(fireflies)) :
         \E r \in {turns(run_state' \div 2,
                         [ffs |-> fireflies, bfs |-> bellflowers,
                          tm |-> trail_m], tracks, order)} :
           /\ fireflies' = r.ffs
           /\ bellflowers' = r.bfs
           /\ trail_m' = r.tm]_vars

\* A tick of a running frame has updated two fireflies or more, one of them
\* at a crossing
C13_Witness ==
  /\ op.name = "update" /\ running
  /\ Len(calls) >= 2
  /\ Crossings # {}

\* ==== Properties of find ====
\* Pointer locations find is probed at: those of the handlers and one at
\* exactly the pick distance of a far track
Probes == Points \cup {<<2000000, 500002>>}

\* The fireflies within the pick radius of p and the tracks find may return
NearFireflies(p) ==
  {i \in 1..Len(fireflies) :
     norm_lt(vsub(p, pos(fireflies[i], tracks)), radius(PICK_FF))}
NearTracks(p) ==
  {k \in 1..Len(tracks) :
     /\ ~has_flag(tracks[k].flags, FIXED)
     /\ norm_lt(nearest(tracks[k], p)[2], radius(PICK_TRACK))}

\* What find has to return at p, r being what it returns
PickedRight(p, r) ==
  IF NearFireflies(p) # {}
  THEN /\ r[1] \in NearFireflies(p)
       /\ \A j \in NearFireflies(p) :
            ~norm_lt(vsub(p, pos(fireflies[j], tracks)),
                     vsub(p, pos(fireflies[r[1]], tracks)))
       /\ r[2] = 0
  ELSE /\ r[1] = 0
       /\ IF NearTracks(p) = {} THEN r[2] = 0
          ELSE /\ r[2] \in NearTracks(p)
               /\ \A j \in NearTracks(p) :
                    ~norm_lt(nearest(tracks[j], p)[2],
                             nearest(tracks[r[2]], p)[2])

\* C14: find returns the nearest firefly within the pick radius and then no
\* track, otherwise the nearest track within the pick distance that is not
\* FIXED, or nothing; the selected track is never FIXED and the origin of a
\* FIXED track never changes.
C14_PickResolution ==
  /\ \A p \in Probes : PickedRight(p, find(fireflies, tracks, p))
  /\ sel_track # 0 => ~has_flag(tracks[sel_track].flags, FIXED)
  /\ \A k \in 1..Len(tracks) :
       has_flag(tracks[k].flags, FIXED) =>
         tracks[k].o = Puzzle(puzzle_id).tracks[k].o

\* A track has been dragged that was picked at a point where a FIXED track
\* was nearer
C14_Witness ==
  /\ op.name = "ptmove" /\ op.wrote_origin
  /\ \E k \in 1..Len(tracks), p \in Points :
       /\ has_flag(tracks[k].flags, FIXED)
       /\ norm_lt(nearest(Puzzle(puzzle_id).tracks[sel_track], p)[2],
                  radius(PICK_TRACK))
       /\ norm_lt(nearest(Puzzle(puzzle_id).tracks[k], p)[2],
                  nearest(Puzzle(puzzle_id).tracks[sel_track], p)[2])

\* ==== Properties of the trail manager ====
\* Slot (pointer + i) mod TRAIL_N, as an index into trail and ages
Slot(i) == ((trail_m.pointer + i) % TRAIL_N) + 1

\* C15: counter is in [0, TRAIL_I) and pointer in [0, TRAIL_N); step()
\* writes on every TRAIL_I-th call since the last reset, moving the pointer
\* back by one slot and storing every firefly's position there; and the
\* slots read from the pointer on are ordered from the newest sample to the
\* oldest, so that the slot step() overwrites next is the oldest.
C15_TrailRing ==
  /\ 0 <= trail_m.counter /\ trail_m.counter < TRAIL_I
  /\ 0 <= trail_m.pointer /\ trail_m.pointer < TRAIL_N
  /\ running =>
       /\ trail_m.counter = pre_run.ticks % TRAIL_I
       /\ trail_m.pointer
            = (TRAIL_N - ((pre_run.ticks \div TRAIL_I) % TRAIL_N)) % TRAIL_N
  /\ (running /\ op.name = "update" /\ trail_m.counter = 0) =>
       \A i \in 1..Len(fireflies) :
         fireflies[i].trail[Slot(0)] = pos(fireflies[i], tracks)
  /\ \A i, j \in 0..(TRAIL_N - 1) :
       i < j => ages.now[Slot(i)] < ages.now[Slot(j)]

\* ==== Properties of the constructor ====
\* Level data with a group that names a firefly outside the firefly array,
\* or with a track whose length is not positive
BadLevel(lv) ==
  \/ outside(load_fireflies(lv), lv.links) # {}
  \/ \E k \in 1..Len(lv.tracks) : lv.tracks[k].len <= 0

\* C16: with a group naming a firefly outside the firefly array, or a track
\* whose length is not positive, construction is refused: no scene is
\* constructed, no link table entry is built and no sub-step runs.
C16_BadLevelRefused ==
  BadLevel(Puzzle(puzzle_id)) =>
    /\ outcome = "fault"
    /\ \A i \in 1..Len(ff_links) : ff_links[i] = << >>
    /\ pre_run.ticks = 0 /\ calls = << >>

\* ==== Properties of seg_intxn ====
\* The side of the line through p and q that x is on: 1, -1, or 0 on the line
side(p, q, x) ==
  LET s == det(vsub(x, p), vsub(q, p))
  IN  IF s > 0 THEN 1 ELSE IF s < 0 THEN -1 ELSE 0

\* The segments p1 p2 and c d cross properly: c and d are on opposite sides
\* of the line through p1 and p2, and p1 and p2 on opposite sides of the
\* line through c and d
proper_crossing(p1, p2, c, d) ==
  /\ side(p1, p2, c) * side(p1, p2, d) = -1
  /\ side(c, d, p1) * side(c, d, p2) = -1

\* C17: seg_intxn(p1, p2, c, d) is true exactly when the two segments cross
\* properly, on every input: also with an endpoint on the other segment's
\* line, with four collinear points, and with p1 = p2.
C17_ProperCrossing ==
  intxn.called =>
    intxn.hit = proper_crossing(intxn.a, intxn.b, intxn.c, intxn.d)

\* C18: seg_intxn(a, b, c, d) = seg_intxn(b, a, c, d) = seg_intxn(a, b, d, c)
C18_CrossingSymmetry ==
  intxn.called =>
    /\ intxn.hit = seg_intxn(intxn.b, intxn.a, intxn.c, intxn.d)
    /\ intxn.hit = seg_intxn(intxn.a, intxn.b, intxn.d, intxn.c)

\* A call that found a proper crossing of two segments with four different
\* end points
C18_Witness ==
  /\ intxn.called /\ intxn.hit
  /\ proper_crossing(intxn.a, intxn.b, intxn.c, intxn.d)
  /\ Cardinality({intxn.a, intxn.b, intxn.c, intxn.d}) = 4

\* ==== Properties of update() ====
\* A frame in which the key is down, was up in the frame before, and no
\* track is selected
RisingEdge ==
  /\ frames' = frames + 1
  /\ sel_track = 0 /\ ~last_space_down /\ last_space_down'

\* C19: the run state flips on exactly the frames that see a rising edge of
\* the key with no track selected, not while the key is held, and not on an
\* edge seen with a track selected; start_run is called on exactly the flips
\* from pause to run and stop_run on exactly those from run to pause; the
\* snapshot is written by start_run only, so that stop_run restores the one
\* of the start_run before it.
C19_ToggleOnRisingEdge ==
  [][/\ (running' # running) <=> RisingEdge
     /\ op'.started <=> (~running /\ running')
     /\ op'.stopped <=> (running /\ ~running')
     /\ fireflies_init' = IF op'.started THEN fireflies ELSE fireflies_init
     /\ op'.stopped => /\ fireflies' = fireflies_init
                       /\ cores(fireflies') = pre_run.ffs]_vars

\* A run was started, the key released, and the run stopped by a second
\* press
C19_Witness ==
  op.stopped /\ last_space_down /\ frames >= 3 /\ pre_run.ticks > 0

\* The fireflies as the last sub-step found them
Before == vector([i \in 1..Len(calls) |-> calls[i].pre])

\* After a frame of a run: every firefly has been updated in the last
\* sub-step and not changed since; every bellflower has sampled the
\* fireflies where that sub-step left them; and a trail slot written in that
\* sub-step holds these positions
SampledAfterUpdate ==
  /\ Len(calls) = Len(fireflies)
  /\ \A i \in 1..Len(fireflies) : core(fireflies[i]) = calls[i].post
  /\ \A j \in Immediate :
       bellflowers[j].last_on = InRadius(bellflowers[j], fireflies, tracks)
  /\ \A j \in Delayed :
       /\ bellflowers[j].last_on = (bellflowers[j].d = 0)
       /\ ~InRadius(bellflowers[j], fireflies, tracks)
            => bellflowers[j].d = bellflowers[j].d0
       /\ (InRadius(bellflowers[j], fireflies, tracks) /\ bellflowers[j].d0 > 0)
            => bellflowers[j].d < bellflowers[j].d0
  /\ trail_m.counter = 0 =>
       \A i \in 1..Len(fireflies) :
         fireflies[i].trail[trail_m.pointer + 1] = pos(fireflies[i], tracks)

\* C20: in a sub-step all fireflies are updated, then all bellflowers, then
\* the trail manager steps, so that every bellflower samples the positions
\* after the update of every firefly; a frame while the run is paused
\* performs no sub-step and changes no firefly, bellflower or trail state.
C20_TickOrdering ==
  [][frames' = frames + 1 =>
       /\ running' => SampledAfterUpdate'
       /\ ~running' => calls' = << >>
       /\ (~running /\ ~running') =>
            /\ fireflies' = fireflies
            /\ bellflowers' = bellflowers
            /\ trail_m' = trail_m]_vars

\* After a frame of a run, a bellflower is on for a firefly that was out of
\* its radius before the last sub-step
C20_Witness ==
  /\ running /\ op.name = "update" /\ calls # << >>
  /\ \E j \in Immediate :
       /\ bellflowers[j].last_on
       /\ ~InRadius(bellflowers[j], Before, tracks)

\* ==== Properties of the velocity ====
\* In the n sub-steps of which x is the trace of the first, on a firefly of
\* velocity v, the velocity changes only in a sub-step whose loop broke at a
\* crossing
RECURSIVE crossed_where_turned(_, _, _, _)
crossed_where_turned(n, x, trs, v) ==
  /\ x.out.v # v => x.k # 0
  /\ n > 1 => crossed_where_turned(n - 1, firefly_trace(x.out, trs), trs,
                                   x.out.v)

\* Firefly i keeps its speed in this step, and if its velocity changes the
\* step is a frame of sub-steps in which it changes at crossings only
SpeedKept(i) ==
  fabs(fireflies'[i].v) = fabs(Puzzle(puzzle_id).fireflies[i][4])
TurnedAtCrossing(i) ==
  /\ frames' = frames + 1 /\ running'
  /\ crossed_where_turned(run_state' \div 2,
                          firefly_trace(fireflies[i], tracks), tracks,
                          fireflies[i].v)

\* C21 as stated: every firefly's |velocity| is its value at load in every
\* reachable state, and the velocity's sign changes only in a simulation step
\* in which a crossing fired for that firefly.
C21_SignTurnsAtCrossingOnly ==
  [][\A i \in 1..Len(fireflies) :
       /\ SpeedKept(i)
       /\ fireflies'[i].v # fireflies[i].v => TurnedAtCrossing(i)]_vars

\* C21 as amended: every firefly's |velocity| is its value at load in every
\* reachable state, and the velocity's sign changes only in a simulation step
\* in which a crossing fired for that firefly, or when stop_run puts back the
\* velocity of the start_run snapshot.
C21_SpeedConserved ==
  [][\A i \in 1..Len(fireflies) :
       /\ SpeedKept(i)
       /\ fireflies'[i].v # fireflies[i].v =>
            \/ TurnedAtCrossing(i)
            \/ op'.stopped /\ fireflies'[i].v = fireflies_init[i].v]_vars

\* A firefly has just turned at a crossing, in the last sub-step of a frame
C21_Witness ==
  /\ running /\ op.name = "update"
  /\ \E i \in 1..Len(calls) :
       /\ calls[i].k # 0
       /\ calls[i].post.v = -calls[i].pre.v
       /\ fireflies[i].v = calls[i].post.v

\* ==== Properties of the selection ====
\* C22: a firefly's sel flag is set iff sel_ff refers to it, and a track's
\* sel flag iff sel_track refers to it, in every reachable state; so after
\* ptoff, and after a later stop_run, no flag is set.
C22_FlagsMatchSelection ==
  /\ \A i \in 1..Len(fireflies) : fireflies[i].sel <=> (sel_ff = i)
  /\ \A k \in 1..Len(tracks) : tracks[k].sel <=> (sel_track = k)

=============================================================================
